---- MODULE Spec2Model ----
(***************************************************************************)
(* Model of the two scripts of the repository:                             *)
(*   refresh_token.py    token status check and OAuth refresh, run as one  *)
(*                       or several command line invocations that share    *)
(*                       the token file, the .env file, the wall clock     *)
(*                       and the provider's token endpoint;                *)
(*   simple_populate.py  the database seeder.                              *)
(* JSON objects and Python dicts are functions from key names to values;   *)
(* a missing key is a key outside DOMAIN, and subscripting it is the       *)
(* KeyError the code would raise.  Opaque tokens are pairs <<tag, n>>.     *)
(***************************************************************************)
EXTENDS Integers, Sequences, FiniteSets, TLC

\* ---------------------------------------------------------------- bounds
MaxTime == 4      \* the wall clock runs from 1 to MaxTime
MaxIssued == 2    \* token pairs the provider issues before it only refuses
MaxRuns == 2      \* invocations of the script in one behaviour
Jitter == 1       \* clock advance between the two time.time() reads
MaxExpiresIn == 2 \* expires_in values of a response: 1..MaxExpiresIn

Procs == {"p1", "p2"}

\* ------------------------------------------------------- program constants
HTTP_OK == 200

None == "None"
NoToken == <<"none", 0>>
EmptyDict == [k \in {} |-> ""]

HasKey(obj, k) == k \in DOMAIN obj
Get(obj, k) == IF k \in DOMAIN obj THEN obj[k] ELSE None
Truthy(v) == v # None /\ v # ""
Min(a, b) == IF a < b THEN a ELSE b

VARIABLES
    envFile,        \* .env: [exists, lines]
    tokenFile,      \* schwab_tokens.json: [kind, data]
    now,            \* wall clock, time.time()
    issued,         \* provider: number of the last refresh token it issued
    runs,           \* invocations started so far
    cmd,            \* per process: sys.argv[1], or "none"
    pc,             \* per process: position in the script
    refresh_token,  \* per process: local refresh_token of refresh_access_token
    response,       \* per process: local response of refresh_access_token
    valid,          \* per process: last return value of check_token_status
    ret,            \* per process: last return value of refresh_access_token
    posts,          \* per process: requests sent to the token endpoint this run
    out,            \* per process: messages printed this run
    exitCode,       \* per process: exit status of the finished run
    consumed,       \* history: refresh tokens spent by the successful refreshes
    stocks,         \* seeder: rows of the stocks table
    daily_prices,   \* seeder: rows of the daily_prices table
    metadata,       \* seeder: rows of the metadata table
    seedPc,         \* seeder: position in populate_database
    seedRun,        \* seeder: number of the current run of the script
    idx,            \* seeder: index of the loop over the symbols
    day,            \* seeder: day index of the inner loop over range(10)
    stocks_added,   \* seeder: local counter
    prices_added    \* seeder: local counter

seedVars == <<stocks, daily_prices, metadata, seedPc, seedRun, idx, day,
              stocks_added, prices_added>>

tokenVars == <<envFile, tokenFile, now, issued, runs, cmd, pc, refresh_token,
          response, valid, ret, posts, out, exitCode, consumed>>

vars == <<tokenVars, seedVars>>

\* ---------------------------------------------------------------- .env
\* A line of the .env file: has_eq is '=' in line, comment is
\* line.strip().startswith('#'), key and value are split('=', 1).
EnvLine(k, v) == [has_eq |-> TRUE, comment |-> FALSE, key |-> k, value |-> v]
CommentLine == [has_eq |-> TRUE, comment |-> TRUE, key |-> "#SCHWAB_API_KEY", value |-> "old"]
BlankLine == [has_eq |-> FALSE, comment |-> FALSE, key |-> "", value |-> ""]

RECURSIVE ParseLines(_, _)
ParseLines(lines, config) ==
    IF lines = <<>> THEN config
    ELSE LET line == Head(lines)
             next == IF line.has_eq /\ ~line.comment
                     THEN [k \in DOMAIN config \cup {line.key} |->
                              IF k = line.key THEN line.value ELSE config[k]]
                     ELSE config
         IN ParseLines(Tail(lines), next)

load_config == IF envFile.exists THEN ParseLines(envFile.lines, EmptyDict) ELSE EmptyDict

EnvFiles ==
    { [exists |-> FALSE, lines |-> <<>>],
      [exists |-> TRUE, lines |-> <<CommentLine, EnvLine("SCHWAB_API_KEY", "k3y"),
                                    BlankLine, EnvLine("SCHWAB_APP_SECRET", "s3cret")>>],
      [exists |-> TRUE, lines |-> <<EnvLine("SCHWAB_API_KEY", ""),
                                    EnvLine("SCHWAB_APP_SECRET", "s3cret")>>],
      [exists |-> TRUE, lines |-> <<CommentLine, EnvLine("SCHWAB_API_KEY", "k3y")>>] }

\* ------------------------------------------------------------ token file
\* The record written by the initial authorization: the nested shape.
InitialToken ==
    [ creation_timestamp |-> 0,
      token |-> [ expires_in |-> 2, token_type |-> "OldBearer", scope |-> "old_scope",
                  refresh_token |-> <<"rt", 0>>, access_token |-> <<"at", 0>>,
                  id_token |-> "id_old", expires_at |-> 2 ] ]

\* The historical flat shape: expiry and tokens at top level.
FlatToken ==
    [ access_token |-> <<"at", 0>>, refresh_token |-> <<"rt", 0>>, expires_at |-> 2 ]

TokenFiles ==
    { [kind |-> "absent", data |-> EmptyDict],
      [kind |-> "garbage", data |-> EmptyDict],
      [kind |-> "json", data |-> InitialToken],
      [kind |-> "json", data |-> FlatToken],
      [kind |-> "json", data |-> [unrelated |-> 0]] }

Msg(m) == [msg |-> m, status |-> 0, body |-> ""]

\* load_tokens: None for an absent file, the parsed JSON otherwise; json.load
\* raises on content that is not JSON and nothing in load_tokens catches it.
load_tokens ==
    CASE tokenFile.kind = "absent" -> [raised |-> FALSE, none |-> TRUE, data |-> EmptyDict]
      [] tokenFile.kind = "garbage" -> [raised |-> TRUE, none |-> FALSE, data |-> EmptyDict]
      [] OTHER -> [raised |-> FALSE, none |-> FALSE, data |-> tokenFile.data]

\* A save that merges into the stored record and keeps its refresh token.
save_tokens_merged(token_data) ==
    tokenFile' = [kind |-> "json",
                  data |-> IF tokenFile.kind = "json" /\ HasKey(tokenFile.data, "token")
                              /\ HasKey(tokenFile.data.token, "refresh_token")
                           THEN [token_data EXCEPT !.token.refresh_token =
                                    tokenFile.data.token.refresh_token]
                           ELSE token_data]

\* A save that keeps a stored record created no earlier than the new one.
save_tokens_keep_newer(token_data) ==
    tokenFile' = IF tokenFile.kind = "json" /\ HasKey(tokenFile.data, "creation_timestamp")
                    /\ tokenFile.data.creation_timestamp >= token_data.creation_timestamp
                 THEN tokenFile
                 ELSE [kind |-> "json", data |-> token_data]

save_tokens(token_data) == tokenFile' = [kind |-> "json", data |-> token_data]

\* ---------------------------------------------------- check_token_status
is_expired(expires_at, t) == expires_at < t

\* The outcome of check_token_status at time t: raised (an exception leaves
\* the function), value (the return value), msgs (what it printed).
check_token_status(t) ==
    LET lt == load_tokens IN
    IF lt.raised THEN [raised |-> TRUE, value |-> FALSE, msgs |-> <<Msg("traceback")>>]
    ELSE IF lt.none THEN [raised |-> FALSE, value |-> FALSE, msgs |-> <<Msg("not_found")>>]
    ELSE IF ~( /\ HasKey(lt.data, "token")
               /\ HasKey(lt.data.token, "expires_at")
               /\ HasKey(lt.data, "creation_timestamp") )
    THEN [raised |-> TRUE, value |-> FALSE, msgs |-> <<Msg("traceback")>>]
    ELSE LET expired == is_expired(lt.data.token.expires_at, t) IN
         [ raised |-> FALSE, value |-> ~expired,
           msgs |-> <<Msg("status"), IF expired THEN Msg("expired") ELSE Msg("valid")>> ]

\* ------------------------------------------------------------------ main
Commands == {"--check", "--refresh", "--bogus", "none"}

\* main's dispatch on sys.argv.
main_dispatch(c) ==
    CASE c = "--check" -> "check"
      [] c = "--refresh" -> "refresh"
      [] c = "none" -> "check"
      [] OTHER -> "usage"

\* Where main goes when check_token_status returns v at position at.
main_after_check(c, at, v) ==
    IF c = "none" /\ at = "check" /\ ~v THEN "refresh" ELSE "done"

\* A main that tries the refresh again when it failed.
main_after_refresh_retry(c, r) ==
    IF c = "none" THEN (IF r THEN "check2" ELSE "refresh") ELSE "done"

\* Where main goes when refresh_access_token returns r.
main_after_refresh(c, r) ==
    IF c = "none" /\ r THEN "check2" ELSE "done"

\* What main prints when refresh_access_token returns r.
main_refresh_msgs(c, r) ==
    IF c = "none" /\ ~r THEN <<Msg("failed_to_refresh")>> ELSE <<>>

NoResponse == [kind |-> "none", status_code |-> 0, text |-> "", json_ok |-> FALSE,
               json |-> EmptyDict]

Idle(p) == pc[p] \in {"idle", "done"}

TypeOK ==
    /\ envFile \in EnvFiles
    /\ tokenFile.kind \in {"absent", "garbage", "json"}
    /\ now \in 1..MaxTime
    /\ issued \in 0..MaxIssued
    /\ runs \in 0..MaxRuns
    /\ \A p \in Procs :
        /\ pc[p] \in {"idle", "check", "check2", "refresh", "post", "handle", "usage", "done"}
        /\ valid[p] \in BOOLEAN /\ ret[p] \in BOOLEAN
        /\ exitCode[p] \in {0, 1}

\* The seeder is not running.
SeedIdle ==
    /\ stocks = {} /\ daily_prices = {} /\ metadata = {}
    /\ seedPc = "idle" /\ seedRun = 0 /\ idx = 1 /\ day = 0
    /\ stocks_added = 0 /\ prices_added = 0

Init ==
    /\ SeedIdle
    /\ envFile \in EnvFiles
    /\ tokenFile \in TokenFiles
    /\ now = 1
    /\ issued = 0
    /\ runs = 0
    /\ cmd = [p \in Procs |-> "none"]
    /\ pc = [p \in Procs |-> "idle"]
    /\ refresh_token = [p \in Procs |-> NoToken]
    /\ response = [p \in Procs |-> NoResponse]
    /\ valid = [p \in Procs |-> FALSE]
    /\ ret = [p \in Procs |-> FALSE]
    /\ posts = [p \in Procs |-> 0]
    /\ out = [p \in Procs |-> <<>>]
    /\ exitCode = [p \in Procs |-> 0]
    /\ consumed = {}

\* One invocation of the script: python refresh_token.py [c].
Invoke(p, c) ==
    /\ Idle(p)
    /\ runs < MaxRuns
    /\ runs' = runs + 1
    /\ cmd' = [cmd EXCEPT ![p] = c]
    /\ pc' = [pc EXCEPT ![p] = main_dispatch(c)]
    /\ refresh_token' = [refresh_token EXCEPT ![p] = NoToken]
    /\ response' = [response EXCEPT ![p] = NoResponse]
    /\ valid' = [valid EXCEPT ![p] = FALSE]
    /\ ret' = [ret EXCEPT ![p] = FALSE]
    /\ posts' = [posts EXCEPT ![p] = 0]
    /\ out' = [out EXCEPT ![p] = <<>>]
    /\ exitCode' = [exitCode EXCEPT ![p] = 0]
    /\ UNCHANGED <<seedVars, consumed, envFile, tokenFile, now, issued>>

\* Invocations one after the other: the documented use.
Start(p) ==
    /\ \A q \in Procs : Idle(q)
    /\ \E c \in Commands : Invoke(p, c)

\* Invocations that may overlap.
StartConcurrent(p) == \E c \in Commands : Invoke(p, c)

Usage(p) ==
    /\ pc[p] = "usage"
    /\ out' = [out EXCEPT ![p] = Append(@, Msg("usage"))]
    /\ pc' = [pc EXCEPT ![p] = "done"]
    /\ exitCode' = [exitCode EXCEPT ![p] = 0]
    /\ UNCHANGED <<seedVars, consumed, envFile, tokenFile, now, issued, runs, cmd, refresh_token,
                   response, valid, ret, posts>>

CheckTokenStatus(p) ==
    /\ pc[p] \in {"check", "check2"}
    /\ LET res == check_token_status(now) IN
        /\ out' = [out EXCEPT ![p] = @ \o res.msgs]
        /\ valid' = [valid EXCEPT ![p] = res.value]
        /\ pc' = [pc EXCEPT ![p] = IF res.raised THEN "done"
                                   ELSE main_after_check(cmd[p], pc[p], res.value)]
        /\ exitCode' = [exitCode EXCEPT ![p] = IF res.raised THEN 1 ELSE 0]
    /\ UNCHANGED <<seedVars, consumed, envFile, tokenFile, now, issued, runs, cmd, refresh_token,
                   response, ret, posts>>

Tick ==
    /\ now < MaxTime
    /\ now' = now + 1
    /\ UNCHANGED <<seedVars, consumed, envFile, tokenFile, issued, runs, cmd, pc, refresh_token,
                   response, valid, ret, posts, out, exitCode>>

\* --------------------------------------------------- refresh_access_token
\* A credentials test that gives up only when both keys are missing.
credentials_missing_both(config) ==
    ~Truthy(Get(config, "SCHWAB_API_KEY")) /\ ~Truthy(Get(config, "SCHWAB_APP_SECRET"))

\* Lines 84-86: the credentials test.
credentials_missing(config) ==
    ~Truthy(Get(config, "SCHWAB_API_KEY")) \/ ~Truthy(Get(config, "SCHWAB_APP_SECRET"))

\* refresh_access_token returns r: back in main.
ReturnFromRefresh(p, r, msgs) ==
    /\ ret' = [ret EXCEPT ![p] = r]
    /\ out' = [out EXCEPT ![p] = @ \o msgs \o main_refresh_msgs(cmd[p], r)]
    /\ pc' = [pc EXCEPT ![p] = main_after_refresh(cmd[p], r)]
    /\ exitCode' = [exitCode EXCEPT ![p] = 0]

\* An exception nothing catches: the interpreter prints a traceback and the
\* process ends with status 1.
Fault(p) ==
    /\ out' = [out EXCEPT ![p] = Append(@, Msg("traceback"))]
    /\ pc' = [pc EXCEPT ![p] = "done"]
    /\ exitCode' = [exitCode EXCEPT ![p] = 1]
    /\ UNCHANGED ret

\* Lines 79-108: load the configuration and the token file, test them and
\* prepare the request.  None of this is inside the try block.
RefreshLoad(p) ==
    /\ pc[p] = "refresh"
    /\ LET config == load_config
           lt == load_tokens
       IN IF lt.raised
          THEN Fault(p) /\ UNCHANGED refresh_token
          ELSE LET found == IF lt.none THEN <<Msg("not_found")>> ELSE <<>> IN
               IF credentials_missing(config)
               THEN /\ ReturnFromRefresh(p, FALSE, found \o <<Msg("missing_credentials")>>)
                    /\ UNCHANGED refresh_token
               ELSE IF lt.none
               THEN ReturnFromRefresh(p, FALSE, found) /\ UNCHANGED refresh_token
               ELSE IF ~(HasKey(lt.data, "token") /\ HasKey(lt.data.token, "refresh_token"))
               THEN Fault(p) /\ UNCHANGED refresh_token
               ELSE /\ refresh_token' = [refresh_token EXCEPT ![p] = lt.data.token.refresh_token]
                    /\ pc' = [pc EXCEPT ![p] = "post"]
                    /\ UNCHANGED <<ret, out, exitCode>>
    /\ UNCHANGED <<seedVars, consumed, envFile, tokenFile, now, issued, runs, cmd, response, valid, posts>>

\* The token endpoint.  A 200 answer carries a new token pair, numbered
\* n + 1; its body may lack the optional id_token, may lack a required key,
\* or may not be JSON at all.  Any request may also be refused or fail in
\* transport.
TokenBody(n, e) ==
    [ expires_in |-> e, token_type |-> "Bearer", scope |-> "api",
      refresh_token |-> <<"rt", n>>, access_token |-> <<"at", n>>, id_token |-> "id_new" ]

Without(obj, k) == [x \in DOMAIN obj \ {k} |-> obj[x]]

Http(status, text, ok, body) ==
    [kind |-> "http", status_code |-> status, text |-> text, json_ok |-> ok, json |-> body]

Refusals ==
    { [kind |-> "error", status_code |-> 0, text |-> "connection reset",
       json_ok |-> FALSE, json |-> EmptyDict],
      Http(401, "invalid_grant", TRUE, [error |-> "invalid_grant"]),
      Http(HTTP_OK, "<html>", FALSE, EmptyDict) }

Grants(n) ==
    UNION { { Http(HTTP_OK, "tokens", TRUE, TokenBody(n, e)),
              Http(HTTP_OK, "tokens", TRUE, Without(TokenBody(n, e), "id_token")),
              Http(HTTP_OK, "tokens", TRUE, Without(TokenBody(n, e), "scope")) }
            : e \in 1..MaxExpiresIn }

\* Lines 111-115: requests.post.
RefreshPost(p) ==
    /\ pc[p] = "post"
    /\ posts' = [posts EXCEPT ![p] = @ + 1]
    /\ pc' = [pc EXCEPT ![p] = "handle"]
    /\ \/ /\ \E r \in Refusals : response' = [response EXCEPT ![p] = r]
          /\ UNCHANGED issued
       \/ /\ issued < MaxIssued
          /\ \E r \in Grants(issued + 1) : response' = [response EXCEPT ![p] = r]
          /\ issued' = issued + 1
    /\ UNCHANGED <<seedVars, consumed, envFile, tokenFile, now, runs, cmd, refresh_token, valid, ret,
                   out, exitCode>>

RequiredKeys == {"expires_in", "token_type", "scope", "refresh_token", "access_token"}

\* A record whose expires_at is the relative expires_in, no clock added.
updated_data_relative(new_token, t1, t2) ==
    [ creation_timestamp |-> t1,
      token |-> [ expires_in |-> new_token.expires_in,
                  token_type |-> new_token.token_type,
                  scope |-> new_token.scope,
                  refresh_token |-> new_token.refresh_token,
                  access_token |-> new_token.access_token,
                  id_token |-> IF HasKey(new_token, "id_token") THEN new_token.id_token ELSE "",
                  expires_at |-> new_token.expires_in ] ]

\* Lines 121-132: the record built from the 200 body new_token, with the
\* clock read at t1 for creation_timestamp and at t2 for expires_at.
updated_data(new_token, t1, t2) ==
    [ creation_timestamp |-> t1,
      token |-> [ expires_in |-> new_token.expires_in,
                  token_type |-> new_token.token_type,
                  scope |-> new_token.scope,
                  refresh_token |-> new_token.refresh_token,
                  access_token |-> new_token.access_token,
                  id_token |-> IF HasKey(new_token, "id_token") THEN new_token.id_token ELSE "",
                  expires_at |-> t2 + new_token.expires_in ] ]

\* A status test on the truth value of the status code.
refresh_succeeded_truthy(r) == r.status_code # 0

\* Line 117: the status test.
refresh_succeeded(r) == r.status_code = HTTP_OK

\* Lines 116-145: the response is handled inside the try block, so a
\* transport failure, a body that is not JSON and a missing key all end in
\* the except clause.
RefreshHandle(p) ==
    /\ pc[p] = "handle"
    /\ LET r == response[p] IN
       IF r.kind = "error"
       THEN /\ ReturnFromRefresh(p, FALSE, <<Msg("error")>>)
            /\ UNCHANGED <<tokenFile, now, consumed>>
       ELSE IF refresh_succeeded(r)
       THEN IF r.json_ok /\ RequiredKeys \subseteq DOMAIN r.json
            THEN \E d \in 0..Min(Jitter, MaxTime - now) :
                    /\ now' = now + d
                    /\ save_tokens(updated_data(r.json, now, now + d))
                    /\ consumed' = consumed \cup {refresh_token[p]}
                    /\ ReturnFromRefresh(p, TRUE, <<Msg("saved"), Msg("refreshed")>>)
            ELSE /\ ReturnFromRefresh(p, FALSE, <<Msg("error")>>)
                 /\ UNCHANGED <<tokenFile, now, consumed>>
       ELSE /\ ReturnFromRefresh(p, FALSE,
                   <<[msg |-> "refresh_failed", status |-> r.status_code, body |-> r.text]>>)
            /\ UNCHANGED <<tokenFile, now, consumed>>
    /\ UNCHANGED <<seedVars, envFile, issued, runs, cmd, refresh_token, response, valid, posts>>

\* ------------------------------------------------------------ the seeder
NumSymbols == 3   \* symbols of SP500_SYMBOLS the model keeps (a prefix)
NumDays == 2      \* days of the price loop, range(10) in the code
MaxSeedRuns == 2  \* runs of the seeder in one behaviour

SymbolList == <<"AAPL", "MSFT", "GOOGL", "GOOG", "AMZN", "NVDA", "META">>
SP500_SYMBOLS == SubSeq(SymbolList, 1, Min(NumSymbols, Len(SymbolList)))
sample_stocks == <<"AAPL", "MSFT", "GOOGL", "AMZN", "NVDA">>
MarketCaps == {1000, 3000}     \* random.uniform(1000000000, 3000000000000)
Prices == {100, 400}           \* base_price * (1 + random.uniform(-0.05, 0.05))

\* The schema: stocks.symbol is unique, daily_prices is keyed by
\* (stock_id, date), stocks.id is an integer primary key.
StocksConflict(tbl, row) == \E r \in tbl : r.symbol = row.symbol
PricesConflict(tbl, row) == \E r \in tbl : r.stock_id = row.stock_id /\ r.date = row.date
MaxId(tbl) == IF tbl = {} THEN 0 ELSE CHOOSE m \in {r.id : r \in tbl} : \A r \in tbl : r.id <= m
NextRowId(tbl) == MaxId(tbl) + 1

\* INSERT OR REPLACE INTO stocks: the conflicting row is deleted first.
insert_or_replace_stock(tbl, row) ==
    LET kept == {r \in tbl : r.symbol # row.symbol} IN
    kept \cup {[row EXCEPT !.id = NextRowId(tbl)]}

\* Lines 55-69: INSERT OR IGNORE INTO stocks; the new table.
insert_or_ignore_stock(tbl, row) ==
    IF StocksConflict(tbl, row) THEN tbl
    ELSE tbl \cup {[row EXCEPT !.id = NextRowId(tbl)]}

\* Lines 97-112: INSERT OR IGNORE INTO daily_prices; the new table.
insert_or_ignore_price(tbl, row) ==
    IF PricesConflict(tbl, row) THEN tbl ELSE tbl \cup {row}

\* Lines 60-69: the row of one symbol.
stock_row(symbol, cap, today) ==
    [ id |-> 0, symbol |-> symbol,
      sector |-> IF symbol \in {"AAPL", "MSFT", "GOOGL", "NVDA", "META"}
                 THEN "Technology" ELSE "Various",
      market_cap |-> cap, last_updated |-> today ]

\* Lines 85-86: SELECT id FROM stocks WHERE symbol = ?; fetchone().
select_id(tbl, symbol) ==
    LET hits == {r.id : r \in {x \in tbl : x.symbol = symbol}} IN
    IF hits = {} THEN 0 ELSE CHOOSE h \in hits : \A g \in hits : h <= g

\* Databases the seeder may find: empty, or holding rows of an earlier
\* import, some of them for symbols of the list.
SeedDatabases ==
    { [stocks |-> {}, daily_prices |-> {}],
      [stocks |-> {[id |-> 1, symbol |-> "AMZN", sector |-> "Consumer",
                    market_cap |-> 5, last_updated |-> 0]},
       daily_prices |-> {[stock_id |-> 1, date |-> 20, price |-> 7]}],
      [stocks |-> {[id |-> 1, symbol |-> "MSFT", sector |-> "Software",
                    market_cap |-> 5, last_updated |-> 0],
                   [id |-> 4, symbol |-> "ZZZ", sector |-> "Various",
                    market_cap |-> 6, last_updated |-> 0]},
       daily_prices |-> {[stock_id |-> 1, date |-> 21, price |-> 7]}] }

TokensIdle ==
    /\ envFile = [exists |-> FALSE, lines |-> <<>>]
    /\ tokenFile = [kind |-> "absent", data |-> EmptyDict]
    /\ now = 1 /\ issued = 0 /\ runs = 0
    /\ cmd = [p \in Procs |-> "none"]
    /\ pc = [p \in Procs |-> "idle"]
    /\ refresh_token = [p \in Procs |-> NoToken]
    /\ response = [p \in Procs |-> NoResponse]
    /\ valid = [p \in Procs |-> FALSE]
    /\ ret = [p \in Procs |-> FALSE]
    /\ posts = [p \in Procs |-> 0]
    /\ out = [p \in Procs |-> <<>>]
    /\ exitCode = [p \in Procs |-> 0]
    /\ consumed = {}

InitSeed ==
    /\ TokensIdle
    /\ \E db \in SeedDatabases : stocks = db.stocks /\ daily_prices = db.daily_prices
    /\ metadata = {}
    /\ seedPc = "idle" /\ seedRun = 0 /\ idx = 1 /\ day = 0
    /\ stocks_added = 0 /\ prices_added = 0

\* Lines 43-51: one run of the script begins.
SeedStart ==
    /\ seedPc \in {"idle", "done"}
    /\ seedRun < MaxSeedRuns
    /\ seedRun' = seedRun + 1
    /\ seedPc' = "stocks"
    /\ idx' = 1 /\ day' = 0
    /\ stocks_added' = 0 /\ prices_added' = 0
    /\ UNCHANGED <<tokenVars, stocks, daily_prices, metadata>>

\* Lines 53-75: one iteration of the loop over SP500_SYMBOLS.
InsertStock ==
    /\ seedPc = "stocks"
    /\ \E cap \in MarketCaps :
        LET after == insert_or_ignore_stock(stocks, stock_row(SP500_SYMBOLS[idx], cap, seedRun)) IN
        /\ stocks' = after
        /\ stocks_added' = IF Cardinality(after) > Cardinality(stocks)
                           THEN stocks_added + 1 ELSE stocks_added
    /\ IF idx < Len(SP500_SYMBOLS)
       THEN idx' = idx + 1 /\ seedPc' = seedPc
       ELSE idx' = 1 /\ seedPc' = "prices"
    /\ UNCHANGED <<tokenVars, daily_prices, metadata, seedRun, day, prices_added>>

\* Lines 83-115: one iteration of the price loops: the stock id of
\* sample_stocks[idx] is looked up and, when there is one, the row of the current day is inserted.
InsertPrice ==
    /\ seedPc = "prices"
    /\ LET stock_id == select_id(stocks, sample_stocks[idx])
           last == (stock_id = 0 \/ day = NumDays - 1)
       IN /\ IF stock_id = 0
             THEN UNCHANGED <<daily_prices, prices_added>>
             ELSE \E price \in Prices :
                    LET after == insert_or_ignore_price(daily_prices,
                                    [stock_id |-> stock_id, date |-> 20 + day, price |-> price]) IN
                    /\ daily_prices' = after
                    /\ prices_added' = IF Cardinality(after) > Cardinality(daily_prices)
                                       THEN prices_added + 1 ELSE prices_added
          /\ day' = IF last THEN 0 ELSE day + 1
          /\ idx' = IF last THEN (IF idx < Len(sample_stocks) THEN idx + 1 ELSE 1) ELSE idx
          /\ seedPc' = IF last /\ idx = Len(sample_stocks) THEN "commit" ELSE seedPc
    /\ UNCHANGED <<tokenVars, stocks, metadata, seedRun, stocks_added>>

\* Lines 118-123: the metadata row is replaced and the changes committed.
Commit ==
    /\ seedPc = "commit"
    /\ metadata' = {r \in metadata : r.key # "last_update_date"}
                   \cup {[key |-> "last_update_date", value |-> "2025-08-29",
                          updated_at |-> seedRun]}
    /\ seedPc' = "done"
    /\ UNCHANGED <<tokenVars, stocks, daily_prices, seedRun, idx, day, stocks_added, prices_added>>

NextSeed == SeedStart \/ InsertStock \/ InsertPrice \/ Commit

SpecSeed == InitSeed /\ [][NextSeed]_vars

\* ------------------------------------------------------- specifications
Step(p) ==
    \/ Usage(p)
    \/ CheckTokenStatus(p)
    \/ RefreshLoad(p)
    \/ RefreshPost(p)
    \/ RefreshHandle(p)

Next == Tick \/ \E p \in Procs : Start(p) \/ Step(p)

Spec == Init /\ [][Next]_vars

NextConcurrent == Tick \/ \E p \in Procs : StartConcurrent(p) \/ Step(p)

SpecConcurrent == Init /\ [][NextConcurrent]_vars

\* ------------------------------------------------------------ the claims
\* Process p takes the step that leaves position at.
Leaves(p, at) == pc[p] = at /\ pc'[p] # at

\* The refresh of p succeeds in this step: it returns True.
Succeeds(p) == Leaves(p, "handle") /\ ret'[p]

Printed(p, m) == \E n \in DOMAIN out[p] : out[p][n].msg = m

NestedFile == tokenFile.kind = "json" /\ DOMAIN tokenFile.data = {"creation_timestamp", "token"}

\* C1: a refresh answered with a status other than 200, or failing in
\* transport, returns False and leaves the token file as it was; for a
\* status other than 200 the status code and the body are reported.
C1_FailedRefreshKeepsFile ==
    [][\A p \in Procs :
        (Leaves(p, "handle") /\ (response[p].kind = "error" \/ response[p].status_code # 200))
        => /\ ~ret'[p]
           /\ tokenFile' = tokenFile
           /\ response[p].kind = "http" =>
                \E n \in DOMAIN out'[p] :
                    out'[p][n] = [msg |-> "refresh_failed",
                                  status |-> response[p].status_code,
                                  body |-> response[p].text]]_vars

C1_Witness ==
    \E p \in Procs :
        /\ pc[p] = "done" /\ cmd[p] = "--refresh" /\ ~ret[p]
        /\ response[p].status_code = 401
        /\ Printed(p, "refresh_failed")
        /\ tokenFile = [kind |-> "json", data |-> InitialToken]

\* C2: check_token_status returns True exactly when expires_at > now, so a
\* record with expires_at = now is reported expired.
C2_StrictValidity ==
    [][\A p \in Procs :
        ((Leaves(p, "check") \/ Leaves(p, "check2")) /\ NestedFile)
        => (valid'[p] <=> tokenFile.data.token.expires_at > now)]_vars

\* C3: a successful refresh writes a record whose token fields all come
\* from the response (id_token empty when the response has none), and every
\* request of a sequence of invocations sends the refresh token of the file,
\* which no earlier successful refresh has spent.
C3_FullReplaceAndRotation ==
    [][\A p \in Procs :
        /\ Succeeds(p) =>
            LET b == response[p].json
                t == tokenFile'.data.token
            IN /\ tokenFile'.kind = "json"
               /\ DOMAIN tokenFile'.data = {"creation_timestamp", "token"}
               /\ DOMAIN t = {"expires_in", "token_type", "scope", "refresh_token",
                              "access_token", "id_token", "expires_at"}
               /\ t.access_token = b.access_token
               /\ t.refresh_token = b.refresh_token
               /\ t.expires_in = b.expires_in
               /\ t.token_type = b.token_type
               /\ t.scope = b.scope
               /\ t.id_token = (IF "id_token" \in DOMAIN b THEN b.id_token ELSE "")
        /\ Leaves(p, "post") =>
            /\ NestedFile
            /\ refresh_token[p] = tokenFile.data.token.refresh_token
            /\ refresh_token[p] \notin consumed]_vars

C3_Witness ==
    \E p \in Procs :
        /\ pc[p] = "done" /\ ret[p]
        /\ Cardinality(consumed) = 2
        /\ refresh_token[p] = <<"rt", 1>>
        /\ NestedFile
        /\ tokenFile.data.token.refresh_token = <<"rt", 2>>
        /\ tokenFile.data.token.id_token = ""

\* C4: the record of a successful refresh has expires_at equal to the time
\* of the refresh plus the expires_in of the response, and creation_timestamp
\* and expires_at differ by expires_in, both within the clock's advance
\* between the two reads.
C4_ExpiresAtRecomputed ==
    [][\A p \in Procs :
        Succeeds(p) =>
            LET e == response[p].json.expires_in
                rec == tokenFile'.data
            IN /\ rec.creation_timestamp \in now..now'
               /\ rec.token.expires_at - e \in now..now'
               /\ now' - now <= Jitter
               /\ rec.token.expires_at - rec.creation_timestamp - e \in 0..Jitter]_vars

C4_Witness ==
    \E p \in Procs :
        /\ pc[p] = "done" /\ ret[p] /\ NestedFile
        /\ now = 3
        /\ tokenFile.data.creation_timestamp = 2
        /\ tokenFile.data.token.expires_in = 2
        /\ tokenFile.data.token.expires_at = 5

\* The .env file gives key a value that is not empty.
EnvGives(key) ==
    /\ envFile.exists
    /\ \E n \in DOMAIN envFile.lines :
        LET l == envFile.lines[n] IN
        /\ l.has_eq /\ ~l.comment /\ l.key = key /\ l.value # ""
        /\ \A m \in DOMAIN envFile.lines :
            m > n => ~(envFile.lines[m].has_eq /\ ~envFile.lines[m].comment
                       /\ envFile.lines[m].key = key)

CredentialsAbsent == ~EnvGives("SCHWAB_API_KEY") \/ ~EnvGives("SCHWAB_APP_SECRET")

\* C5: without the credentials file, or without a value for either key, a
\* refresh ends before any request is sent and never writes the token file.
C5_NoCredentialsNoRequest ==
    [][CredentialsAbsent =>
        /\ tokenFile' = tokenFile
        /\ \A p \in Procs :
            /\ posts'[p] = 0
            /\ pc'[p] \notin {"post", "handle"}
            /\ Leaves(p, "refresh") => (pc'[p] = "done" /\ ~ret'[p])]_vars

C5_Witness ==
    \E p \in Procs :
        /\ envFile.exists /\ ~EnvGives("SCHWAB_APP_SECRET")
        /\ pc[p] = "done" /\ cmd[p] = "--refresh"
        /\ Printed(p, "missing_credentials")
        /\ tokenFile = [kind |-> "json", data |-> InitialToken]

\* C6: the exit status is 0 after a successful refresh or a check, and not 0
\* when the credentials are missing, when the token file of --refresh is
\* missing, and when the argument is missing or not recognized.
C6_ExitCodeContract ==
    \A p \in Procs :
        pc[p] = "done" =>
            /\ (cmd[p] = "--refresh" /\ ret[p]) => exitCode[p] = 0
            /\ (cmd[p] = "--check" /\ ~Printed(p, "traceback")) => exitCode[p] = 0
            /\ (cmd[p] = "--refresh" /\ Printed(p, "missing_credentials")) => exitCode[p] # 0
            /\ (cmd[p] = "--refresh" /\ Printed(p, "not_found")) => exitCode[p] # 0
            /\ cmd[p] \in {"--bogus", "none"} => exitCode[p] # 0

\* The expiry of a token file of either supported shape.
ExpiryOf(data) ==
    IF "token" \in DOMAIN data THEN data.token.expires_at ELSE data.expires_at

SupportedShape(data) ==
    \/ {"access_token", "refresh_token", "expires_at"} \subseteq DOMAIN data
    \/ /\ {"token", "creation_timestamp"} \subseteq DOMAIN data
       /\ {"access_token", "refresh_token", "expires_at"} \subseteq DOMAIN data.token

\* C7: loading the token file ends in a reported outcome for every state of
\* the file: not found for an absent file, the validity of the record for
\* either supported shape, a parse error for anything else, and never an
\* unhandled fault.
C7_LoadOutcomes ==
    [][\A p \in Procs :
        /\ Leaves(p, "refresh") =>
            /\ exitCode'[p] = 0
            /\ \A n \in DOMAIN out'[p] : out'[p][n].msg # "traceback"
        /\ (Leaves(p, "check") \/ Leaves(p, "check2")) =>
            /\ exitCode'[p] = 0
            /\ \A n \in DOMAIN out'[p] : out'[p][n].msg # "traceback"
            /\ tokenFile.kind = "absent" => out'[p][Len(out'[p])].msg = "not_found"
            /\ (tokenFile.kind = "json" /\ SupportedShape(tokenFile.data)) =>
                    (valid'[p] <=> ~(ExpiryOf(tokenFile.data) < now))
            /\ (tokenFile.kind = "garbage"
                \/ (tokenFile.kind = "json" /\ ~SupportedShape(tokenFile.data))) =>
                    out'[p][Len(out'[p])].msg = "parse_error"]_vars

\* C8: from any database, the second and later runs of the seeder leave the
\* stocks and daily_prices tables as the first run left them and add no
\* stock row, and once the symbols are inserted each symbol of the list is
\* in exactly one row.
C8_SeederIdempotent ==
    [][/\ seedRun' >= 2 =>
            /\ stocks' = stocks
            /\ daily_prices' = daily_prices
            /\ stocks_added' = 0
       /\ seedPc' \in {"prices", "commit", "done"} =>
            \A n \in DOMAIN SP500_SYMBOLS :
                Cardinality({r \in stocks' : r.symbol = SP500_SYMBOLS[n]}) = 1]_vars

C8_Witness ==
    /\ seedRun = 2 /\ seedPc = "done"
    /\ stocks_added = 0 /\ prices_added = 0
    /\ \E r \in stocks : r.symbol = "MSFT" /\ r.last_updated = 0
    /\ \E r \in stocks : r.symbol = "AAPL" /\ r.last_updated = 1
    /\ \E r \in metadata : r.updated_at = 2

\* C9: nothing orders overlapping refreshes: a refresh that has loaded the
\* file is never held back, and the one that saves last decides the file,
\* whatever the file holds by then.
C9_LastWriterWins ==
    [][\A p \in Procs :
        /\ pc[p] \in {"refresh", "post", "handle"} => ENABLED Step(p)
        /\ Succeeds(p) =>
            /\ tokenFile'.data.token.refresh_token = response[p].json.refresh_token
            /\ tokenFile'.data.token.access_token = response[p].json.access_token]_vars

\* Both invocations sent the same refresh token, both were granted, and the
\* file holds a refresh token that is not the last one the provider issued.
C9_Witness ==
    \E p, q \in Procs :
        /\ p # q
        /\ pc[p] = "done" /\ pc[q] = "done" /\ ret[p] /\ ret[q]
        /\ refresh_token[p] = refresh_token[q]
        /\ issued = 2
        /\ tokenFile.data.token.refresh_token = <<"rt", 1>>

\* C10: with no argument, main checks, refreshes only after a check that
\* returned False and checks again only after a refresh that returned True;
\* a valid token ends the run with no request and the file untouched, and no
\* run sends more than one request.
C10_DefaultModeOrder ==
    [][\A p \in Procs :
        /\ posts'[p] <= 1
        /\ cmd'[p] = "none" =>
            /\ (Leaves(p, "check") /\ valid'[p]) =>
                    (pc'[p] = "done" /\ posts'[p] = 0 /\ tokenFile' = tokenFile)
            /\ (pc'[p] = "refresh" /\ pc[p] # "refresh") => (pc[p] = "check" /\ ~valid'[p])
            /\ (pc'[p] = "post" /\ pc[p] # "post") => (pc[p] = "refresh" /\ posts[p] = 0)
            /\ (pc'[p] = "check2" /\ pc[p] # "check2") => (pc[p] = "handle" /\ ret'[p])]_vars

C10_Witness ==
    \E p, q \in Procs :
        /\ cmd[p] = "none" /\ pc[p] = "done" /\ valid[p] /\ posts[p] = 0
        /\ cmd[q] = "none" /\ pc[q] = "done" /\ ~valid[q] /\ posts[q] = 1 /\ ~ret[q]
        /\ Printed(q, "failed_to_refresh")
        /\ tokenFile = [kind |-> "json", data |-> InitialToken]

====
